---- MODULE Spec2Model ----
(***************************************************************************)
(* TRAND: the multi-exchange OHLCV fetcher (src/src/data_fetcher.py), the   *)
(* analysis pass that consumes it (src/src/main.py) and the technical      *)
(* analyzer (src/src/analyzer.py).                                         *)
(*                                                                         *)
(* One step of the model is one step of the code: one call of the exchange *)
(* client, one backoff sleep, one iteration of the fallback loop, one      *)
(* iteration of the timeframe loop, one stage of run_analysis.             *)
(***************************************************************************)
EXTENDS Integers, Sequences, FiniteSets, TLC

(***************************************************************************)
(* Program constants                                                       *)
(***************************************************************************)

\* DataFetcher.FALLBACK_EXCHANGES
FALLBACK_EXCHANGES == <<"kraken", "coinbase", "kucoin", "bybit">>

ExchangeIds == {FALLBACK_EXCHANGES[i] : i \in DOMAIN FALLBACK_EXCHANGES}

\* The exchange_id a DataFetcher is constructed with: the default of
\* DataFetcher.__init__ and the one TradingBot.__init__ passes.
PrimaryChoices == {"kraken", "bybit"}

\* The default of config.TRADING_INTERVALS.
DefaultIntervals == <<"1d", "4h", "1h", "15m">>

\* for attempt in range(3)
RetryLimit == 3

(***************************************************************************)
(* Bounds of the model                                                     *)
(***************************************************************************)

\* The most candles an exchange answers with.
MaxCandles == 2

\* How many timeframes the pass is configured with.
NumTimeframes == 2

\* config.TRADING_INTERVALS, read from the environment: the first
\* NumTimeframes entries of its default.
TRADING_INTERVALS == SubSeq(DefaultIntervals, 1, NumTimeframes)

(***************************************************************************)
(* Values                                                                  *)
(***************************************************************************)

\* pd.DataFrame(columns=[...]): the empty series.
EmptyDF == [src |-> "none", n |-> 0]

\* A series of n candles supplied by the client of exchange src.
DataFrame(src, n) == [src |-> src, n |-> n]

\* df.empty
IsEmpty(d) == d.n = 0

\* result = {} ; the mapping with no key
EmptyMap == <<>>

\* The observer's choices: one exchange identifier, or every identifier.
AllIds == "*"
Watchable == ExchangeIds \cup {AllIds}

VARIABLES
    exchange_id,     \* self.exchange_id
    exchange,        \* self.exchange: the exchange whose client it is
    configured,      \* the exchange_id given to the constructor
    pc,              \* where the single thread of the program stands
    attempt,         \* the loop variable of the retry loop
    fbIdx,           \* 0 in the primary's procedure, else the position in
                     \* FALLBACK_EXCHANGES of the fallback loop
    df,              \* the series fetch_ohlcv returned
    tfIdx,           \* position of the timeframe loop in TRADING_INTERVALS
    timeframe_data,  \* result of fetch_multi_timeframe_data
    tech_analysis,   \* run_analysis: tech_analysis
    output,          \* what run_analysis returned
    primary0,        \* history: self.exchange_id when the call began
    watch,           \* history: the identifier(s) this call is observed for
    wAttempts,       \* history: exchange calls labelled with watch, this call
    wProcs,          \* history: retry procedures begun on watch, this call
    wEnd,            \* history: how the last procedure on watch ended
    wDf,             \* history: the series the last procedure on watch gave
    nSleep,          \* history: backoff sleeps in the current procedure
    nTry,            \* history: exchange calls in the current procedure
    nInit,           \* history: _initialize_exchange calls in this call
    lastOutcome,     \* history: what the last exchange call did
    allNet,          \* history: every failure of this call so far was a
                     \* NetworkError of an exchange call
    returned,        \* history: the series each fetch_ohlcv call of this
                     \* pass returned, in call order
    data,            \* TechnicalAnalyzer: self.data
    indicators,      \* TechnicalAnalyzer: self.indicators
    signals,         \* TechnicalAnalyzer: self.signals
    ret,             \* what the last call of an analyzer method returned
    firstSignals,    \* history: what generate_signals returned first for
                     \* the series now in self.data
    webhook_url,     \* DiscordNotifier: self.webhook_url
    npc,             \* where send_message stands
    sendAttempt,     \* send_message: the loop variable attempt
    answers,         \* history: what each webhook.execute() of this
                     \* send_message did, in order
    waited,          \* history: the seconds this send_message slept
    sent             \* what the last send_message returned

fetcherVars == <<exchange_id, exchange, configured>>
callVars == <<pc, attempt, fbIdx, df>>
passVars == <<tfIdx, timeframe_data, tech_analysis, output>>
histVars == <<primary0, watch, wAttempts, wProcs, wEnd, wDf, nSleep, nTry,
              nInit, lastOutcome, allNet>>
analyzerVars == <<data, indicators, signals, ret, firstSignals>>
notifierVars == <<webhook_url, npc, sendAttempt, answers, waited, sent>>
botVars == <<fetcherVars, callVars, passVars, histVars, returned,
             notifierVars>>
vars == <<botVars, analyzerVars>>

\* Whether an exchange call labelled id is one the observer counts.
Counted(id) == watch = AllIds \/ watch = id

NoOutput == [kind |-> "none"]

\* ohlcv_data: pd.DataFrame = None
NoData == [none |-> TRUE, close |-> <<>>]

\* No analyzer method has returned yet.
NoReturn == [op |-> "none", value |-> <<>>, calc |-> FALSE]

\* generate_signals has not returned for the series in self.data.
NoSignals == [has |-> FALSE, value |-> <<>>, again |-> FALSE]

\* TechnicalAnalyzer.__init__, as TradingBot.__init__ calls it.
AnalyzerInit ==
    /\ data = NoData
    /\ indicators = EmptyMap
    /\ signals = EmptyMap
    /\ ret = NoReturn
    /\ firstSignals = NoSignals

\* DISCORD_WEBHOOK_URL = os.getenv("DISCORD_WEBHOOK_URL", ""): the URL of a
\* deployment, and the empty default.
WebhookUrl == "url"
NoWebhookUrl == ""

\* DiscordNotifier.__init__ with url for webhook_url or DISCORD_WEBHOOK_URL
NotifierInit(url) ==
    /\ webhook_url = url
    /\ npc = "idle"
    /\ sendAttempt = 0
    /\ answers = <<>>
    /\ waited = 0
    /\ sent = "none"

(***************************************************************************)
(* DataFetcher.__init__                                                    *)
(***************************************************************************)
FetcherInit ==
    /\ configured \in PrimaryChoices
    /\ exchange_id = configured
    /\ exchange = configured
    /\ pc = "idle"
    /\ attempt = 0
    /\ fbIdx = 0
    /\ df = EmptyDF
    /\ tfIdx = 0
    /\ timeframe_data = EmptyMap
    /\ tech_analysis = EmptyMap
    /\ output = NoOutput
    /\ primary0 = configured
    /\ watch = AllIds
    /\ wAttempts = 0
    /\ wProcs = 0
    /\ wEnd = "none"
    /\ wDf = EmptyDF
    /\ nSleep = 0
    /\ nTry = 0
    /\ nInit = 0
    /\ lastOutcome = "none"
    /\ allNet = TRUE
    /\ returned = <<>>

(***************************************************************************)
(* TradingBot.__init__, in a deployment with a webhook URL                 *)
(***************************************************************************)
Init ==
    /\ AnalyzerInit
    /\ FetcherInit
    /\ NotifierInit(WebhookUrl)


(***************************************************************************)
(* DataFetcher._try_fetch_from_exchange                                    *)
(***************************************************************************)

\* ShouldRetry with the bound one too high: the third NetworkError sleeps too.
ShouldRetryOffByOne(a) == a < 3

\* if attempt < 2: ... time.sleep(2)   else: raise
ShouldRetry(a) == a < 2

\* ReturnsSeries with the test inverted: if df.empty: return df
ReturnsSeriesInverted(d) == IsEmpty(d)

\* fetch_ohlcv, on the series a retry procedure gave: if not df.empty: return df
ReturnsSeries(d) == ~IsEmpty(d)

\* One call of self.exchange.fetch_ohlcv, labelled with exchange_id.
ExchangeCalled(outcome) ==
    /\ nTry' = nTry + 1
    /\ wAttempts' = IF Counted(exchange_id) THEN wAttempts + 1 ELSE wAttempts
    /\ lastOutcome' = outcome
    /\ allNet' = (allNet /\ outcome \in {"net", "data"})

\* _try_fetch_from_exchange returns series d to fetch_ohlcv, which returns d
\* when it is not empty and goes on to the fallback loop when it is.
TryReturns(d, how) ==
    /\ wEnd' = IF watch = exchange_id THEN how ELSE wEnd
    /\ wDf' = IF watch = exchange_id THEN d ELSE wDf
    /\ IF ReturnsSeries(d)
         THEN pc' = "fetched" /\ df' = d /\ fbIdx' = fbIdx
         ELSE pc' = "fallback" /\ df' = df /\ fbIdx' = fbIdx + 1

\* The exchange answers with n >= 1 candles: return df.
AttemptData ==
    /\ pc = "attempt"
    /\ \E n \in 1..MaxCandles :
         /\ ExchangeCalled("data")
         /\ TryReturns(DataFrame(exchange, n), "data")
    /\ UNCHANGED <<analyzerVars, notifierVars>>
    /\ UNCHANGED <<fetcherVars, passVars, attempt, primary0, watch, wProcs,
                   nSleep, nInit, returned>>

\* The exchange answers with no candle: return df, an empty series.
AttemptEmpty ==
    /\ pc = "attempt"
    /\ ExchangeCalled("empty")
    /\ TryReturns(EmptyDF, "empty")
    /\ UNCHANGED <<analyzerVars, notifierVars>>
    /\ UNCHANGED <<fetcherVars, passVars, attempt, primary0, watch, wProcs,
                   nSleep, nInit, returned>>

\* except ccxt.NetworkError: go to the backoff, or re-raise on the last
\* attempt, which the outer except turns into an empty series.
AttemptNetworkError ==
    /\ pc = "attempt"
    /\ ExchangeCalled("net")
    /\ IF ShouldRetry(attempt)
         THEN /\ pc' = "backoff"
              /\ UNCHANGED <<df, fbIdx, wEnd, wDf>>
         ELSE TryReturns(EmptyDF, "net")
    /\ UNCHANGED <<analyzerVars, notifierVars>>
    /\ UNCHANGED <<fetcherVars, passVars, attempt, primary0, watch, wProcs,
                   nSleep, nInit, returned>>

\* AttemptOtherError with an outer handler that catches ccxt.NetworkError
\* only: the exception leaves _try_fetch_from_exchange and fetch_ohlcv.
AttemptOtherErrorUncaught ==
    /\ pc = "attempt"
    /\ ExchangeCalled("other")
    /\ pc' = "raised"
    /\ UNCHANGED <<analyzerVars, notifierVars>>
    /\ UNCHANGED <<fetcherVars, passVars, attempt, fbIdx, df, primary0, watch,
                   wProcs, wEnd, wDf, nSleep, nInit, returned>>

\* Any other exception: the outer except returns an empty series at once.
AttemptOtherError ==
    /\ pc = "attempt"
    /\ ExchangeCalled("other")
    /\ TryReturns(EmptyDF, "other")
    /\ UNCHANGED <<analyzerVars, notifierVars>>
    /\ UNCHANGED <<fetcherVars, passVars, attempt, primary0, watch, wProcs,
                   nSleep, nInit, returned>>

\* time.sleep(2), then the next iteration of for attempt in range(3). A loop
\* that ran out after a sleep would return None, and df.empty of None raises:
\* out of fetch_ohlcv in the primary's procedure, into the except of the
\* fallback loop otherwise.
Backoff ==
    /\ pc = "backoff"
    /\ nSleep' = nSleep + 1
    /\ attempt' = attempt + 1
    /\ IF attempt + 1 < RetryLimit
         THEN pc' = "attempt" /\ fbIdx' = fbIdx
         ELSE IF fbIdx = 0
                THEN pc' = "raised" /\ fbIdx' = fbIdx
                ELSE pc' = "fallback" /\ fbIdx' = fbIdx + 1
    /\ UNCHANGED <<analyzerVars, notifierVars>>
    /\ UNCHANGED <<fetcherVars, passVars, df, primary0, watch, wAttempts,
                   wProcs, wEnd, wDf, nTry, nInit, lastOutcome, allNet,
                   returned>>

(***************************************************************************)
(* DataFetcher.fetch_ohlcv                                                 *)
(***************************************************************************)

\* if fallback_exchange == self.exchange_id: continue
SkipFallback(fb) == fb = exchange_id

\* fetch_ohlcv is called for the timeframe at tfIdx and enters the retry
\* procedure of self.exchange_id. self.exchange is set since construction, so
\* the procedure's "if not self.exchange" initialises nothing.
FetchOhlcv ==
    /\ pc = "fetch_multi"
    /\ tfIdx <= Len(TRADING_INTERVALS)
    /\ pc' = "attempt"
    /\ attempt' = 0
    /\ fbIdx' = 0
    /\ df' = EmptyDF
    /\ primary0' = exchange_id
    /\ watch' \in Watchable
    /\ wAttempts' = 0
    /\ wProcs' = IF watch' \in {AllIds, exchange_id} THEN 1 ELSE 0
    /\ wEnd' = "none"
    /\ wDf' = EmptyDF
    /\ nSleep' = 0
    /\ nTry' = 0
    /\ nInit' = 0
    /\ lastOutcome' = "none"
    /\ allNet' = TRUE
    /\ UNCHANGED <<analyzerVars, notifierVars>>
    /\ UNCHANGED <<fetcherVars, passVars, returned>>

\* The fallback at fbIdx is the current exchange_id: continue.
FallbackSkip ==
    /\ pc = "fallback"
    /\ fbIdx <= Len(FALLBACK_EXCHANGES)
    /\ SkipFallback(FALLBACK_EXCHANGES[fbIdx])
    /\ fbIdx' = fbIdx + 1
    /\ UNCHANGED <<analyzerVars, notifierVars>>
    /\ UNCHANGED <<fetcherVars, passVars, histVars, pc, attempt, df, returned>>

\* self.exchange_id = fallback_exchange; _initialize_exchange() succeeds and
\* the retry procedure of the fallback begins.
FallbackInit ==
    /\ pc = "fallback"
    /\ fbIdx <= Len(FALLBACK_EXCHANGES)
    /\ ~SkipFallback(FALLBACK_EXCHANGES[fbIdx])
    /\ exchange_id' = FALLBACK_EXCHANGES[fbIdx]
    /\ exchange' = FALLBACK_EXCHANGES[fbIdx]
    /\ nInit' = nInit + 1
    /\ pc' = "attempt"
    /\ attempt' = 0
    /\ nSleep' = 0
    /\ nTry' = 0
    /\ wProcs' = IF Counted(FALLBACK_EXCHANGES[fbIdx]) THEN wProcs + 1 ELSE wProcs
    /\ UNCHANGED <<analyzerVars, notifierVars>>
    /\ UNCHANGED <<configured, passVars, fbIdx, df, primary0, watch,
                   wAttempts, wEnd, wDf, lastOutcome, allNet, returned>>

\* self.exchange_id = fallback_exchange; _initialize_exchange() raises, the
\* except of the loop logs it and the loop goes on. self.exchange keeps the
\* client it had.
FallbackInitFails ==
    /\ pc = "fallback"
    /\ fbIdx <= Len(FALLBACK_EXCHANGES)
    /\ ~SkipFallback(FALLBACK_EXCHANGES[fbIdx])
    /\ exchange_id' = FALLBACK_EXCHANGES[fbIdx]
    /\ nInit' = nInit + 1
    /\ fbIdx' = fbIdx + 1
    /\ allNet' = FALSE
    /\ UNCHANGED <<analyzerVars, notifierVars>>
    /\ UNCHANGED <<exchange, configured, passVars, pc, attempt, df, primary0,
                   watch, wAttempts, wProcs, wEnd, wDf, nSleep, nTry,
                   lastOutcome, returned>>

\* The loop is over: return pd.DataFrame(columns=[...]).
AllExchangesFailed ==
    /\ pc = "fallback"
    /\ fbIdx > Len(FALLBACK_EXCHANGES)
    /\ df' = EmptyDF
    /\ pc' = "fetched"
    /\ UNCHANGED <<analyzerVars, notifierVars>>
    /\ UNCHANGED <<fetcherVars, passVars, histVars, attempt, fbIdx, returned>>


(***************************************************************************)
(* DataFetcher.fetch_multi_timeframe_data                                  *)
(***************************************************************************)

\* StoreResult without the emptiness test: result[tf] = df
StoreResultAlways(result, tf, d) == (tf :> d) @@ result

\* if not df.empty: result[tf] = df
StoreResult(result, tf, d) ==
    IF ~IsEmpty(d) THEN (tf :> d) @@ result ELSE result

\* df = self.fetch_ohlcv(tf, limit) has returned: store it and go on to the
\* next timeframe. The locals of the finished call are gone.
FetchMultiStore ==
    /\ pc = "fetched"
    /\ timeframe_data' = StoreResult(timeframe_data, TRADING_INTERVALS[tfIdx], df)
    /\ tfIdx' = tfIdx + 1
    /\ pc' = "fetch_multi"
    /\ attempt' = 0
    /\ fbIdx' = 0
    /\ df' = EmptyDF
    /\ primary0' = exchange_id
    /\ watch' = AllIds
    /\ wAttempts' = 0
    /\ wProcs' = 0
    /\ wEnd' = "none"
    /\ wDf' = EmptyDF
    /\ nSleep' = 0
    /\ nTry' = 0
    /\ nInit' = 0
    /\ lastOutcome' = "none"
    /\ allNet' = TRUE
    /\ returned' = Append(returned, df)
    /\ UNCHANGED <<analyzerVars, notifierVars>>
    /\ UNCHANGED <<fetcherVars, tech_analysis, output>>

(***************************************************************************)
(* TechnicalAnalyzer.analyze_timeframe, as far as run_analysis depends on  *)
(* it: generate_signals returns a Signal Set for every non-empty series;   *)
(* with one candle get_market_summary indexes the second-to-last row,      *)
(* catches the IndexError and returns an error mapping; no exception       *)
(* leaves analyze_timeframe.  The fetcher's series carry their length      *)
(* only; the analyzer's arithmetic is modelled below, under SpecAnalyzer.  *)
(***************************************************************************)
analyze_timeframe(tf, d) ==
    [timeframe |-> tf,
     signals |-> "signals",
     summary |-> IF d.n >= 2 THEN "summary" ELSE "error"]

(***************************************************************************)
(* TradingBot.run_analysis                                                 *)
(***************************************************************************)

\* NoTimeframeData that also holds when only some timeframe is missing.
NoTimeframeDataAnyMissing(td) ==
    Cardinality(DOMAIN td) < Len(TRADING_INTERVALS)

\* if not timeframe_data:
NoTimeframeData(td) == DOMAIN td = {}

\* What GPTAnalyzer.analyze_market returns for one timeframe: a parsed
\* analysis, or its error record.
GptRecords == {"gpt", "gpt_error"}

\* The result entry of a timeframe: the GPT analysis when there is one, else
\* the fallback built from the technical signals.
ResultEntry(tf, gpt_analysis) ==
    IF tf \in DOMAIN gpt_analysis
      THEN [from |-> gpt_analysis[tf]]
      ELSE [from |-> "technical"]

\* for timeframe in TRADING_INTERVALS: if timeframe in tech_analysis: ...
CombineResults(tech, gpt_analysis) ==
    [tf \in {TRADING_INTERVALS[i] : i \in DOMAIN TRADING_INTERVALS} \cap DOMAIN tech
       |-> ResultEntry(tf, gpt_analysis)]

\* The except of run_analysis (return {"error": str(e)}) has no step: nothing
\* in its try block raises. fetch_ohlcv returns on every path, the parts of
\* analyze_timeframe catch their own exceptions, and the GPT call has its own
\* except.

\* run_analysis is called (by send_notification, on schedule) and calls
\* fetch_multi_timeframe_data(TRADING_INTERVALS).
RunAnalysis ==
    /\ pc = "idle"
    /\ pc' = "fetch_multi"
    /\ tfIdx' = 1
    /\ timeframe_data' = EmptyMap
    /\ tech_analysis' = EmptyMap
    /\ output' = NoOutput
    /\ returned' = <<>>
    /\ UNCHANGED <<analyzerVars, notifierVars>>
    /\ UNCHANGED <<fetcherVars, histVars, attempt, fbIdx, df>>

\* fetch_multi_timeframe_data returned no timeframe:
\* return {"error": ...}
ReturnNoData ==
    /\ pc = "fetch_multi"
    /\ tfIdx > Len(TRADING_INTERVALS)
    /\ NoTimeframeData(timeframe_data)
    /\ output' = [kind |-> "error"]
    /\ pc' = "idle"
    /\ UNCHANGED <<analyzerVars, notifierVars>>
    /\ UNCHANGED <<fetcherVars, histVars, attempt, fbIdx, df, tfIdx,
                   timeframe_data, tech_analysis, returned>>

\* for timeframe, ohlcv_data in timeframe_data.items(): set_data and
\* analyze_timeframe.
TechnicalAnalysis ==
    /\ pc = "fetch_multi"
    /\ tfIdx > Len(TRADING_INTERVALS)
    /\ ~NoTimeframeData(timeframe_data)
    /\ tech_analysis' = [tf \in DOMAIN timeframe_data |->
                           analyze_timeframe(tf, timeframe_data[tf])]
    /\ pc' = "gpt"
    /\ UNCHANGED <<analyzerVars, notifierVars>>
    /\ UNCHANGED <<fetcherVars, histVars, attempt, fbIdx, df, tfIdx,
                   timeframe_data, output, returned>>

\* _create_prompt formats summary.price_change_pct with :.2f; for a summary
\* without that key it formats the string "N/A" and raises ValueError.
CreatesPrompt(market_data) == market_data.summary = "summary"

\* gpt_analysis = analyze_multi_timeframe(tech_analysis) returns a record for
\* every timeframe; the results are combined and returned.  Without an API
\* key every record is the error record and no prompt is created; with one,
\* every prompt has to be created, and each API call gives an analysis or,
\* failing three times, the error record.
GptAnalysis ==
    /\ pc = "gpt"
    /\ \E g \in [DOMAIN tech_analysis -> GptRecords] :
         /\ \/ \A tf \in DOMAIN tech_analysis : g[tf] = "gpt_error"
            \/ \A tf \in DOMAIN tech_analysis : CreatesPrompt(tech_analysis[tf])
         /\ output' = [kind |-> "results",
                       results |-> CombineResults(tech_analysis, g),
                       tech_data |-> tech_analysis]
    /\ pc' = "idle"
    /\ UNCHANGED <<analyzerVars, notifierVars>>
    /\ UNCHANGED <<fetcherVars, histVars, attempt, fbIdx, df, tfIdx,
                   timeframe_data, tech_analysis, returned>>

\* analyze_multi_timeframe raises, as _create_prompt does outside the try of
\* analyze_market: gpt_analysis stays {} and every result is built from the
\* technical analysis alone.
GptAnalysisRaises ==
    /\ pc = "gpt"
    /\ \E tf \in DOMAIN tech_analysis : ~CreatesPrompt(tech_analysis[tf])
    /\ output' = [kind |-> "results",
                  results |-> CombineResults(tech_analysis, EmptyMap),
                  tech_data |-> tech_analysis]
    /\ pc' = "idle"
    /\ UNCHANGED <<analyzerVars, notifierVars>>
    /\ UNCHANGED <<fetcherVars, histVars, attempt, fbIdx, df, tfIdx,
                   timeframe_data, tech_analysis, returned>>

(***************************************************************************)
(* The program                                                             *)
(***************************************************************************)
\* The steps of the fetcher and of the analysis pass.  The pass hands the
\* analyzer series of which these steps keep the length only, so they leave
\* the analyzer's fields as constructed.
Next ==
    \/ RunAnalysis
    \/ FetchOhlcv
    \/ AttemptData
    \/ AttemptEmpty
    \/ AttemptNetworkError
    \/ AttemptOtherError
    \/ Backoff
    \/ FallbackSkip
    \/ FallbackInit
    \/ FallbackInitFails
    \/ AllExchangesFailed
    \/ FetchMultiStore
    \/ ReturnNoData
    \/ TechnicalAnalysis
    \/ GptAnalysis
    \/ GptAnalysisRaises

Spec == Init /\ [][Next]_vars


(***************************************************************************)
(* Properties of the fetcher                                               *)
(***************************************************************************)

\* C1: fetch_ohlcv never raises to its caller; whatever the exchange calls
\* and the initialisations of the fallbacks did, it returns a series, and the
\* series is empty when no exchange call produced data.
C1_NeverRaises ==
    /\ pc # "raised"
    /\ pc = "fetched" =>
         /\ df.n \in 0..MaxCandles
         /\ (lastOutcome # "data" => IsEmpty(df))

\* fetch_ohlcv has returned an empty series after an exchange call raised a
\* non-network exception and the last fallback failed to initialise.
C1_AllFailed ==
    /\ pc = "fetched"
    /\ IsEmpty(df)
    /\ lastOutcome = "other"
    /\ exchange # exchange_id
    /\ nInit > 0

\* C2: within one retry procedure an exchange call that raises NetworkError
\* is followed by another call only while fewer than 3 were made; there are
\* at most 3 calls, a backoff sleep happens only between two calls (not after
\* the 3rd failure, not after a success), and after the 3rd NetworkError the
\* procedure yields an empty series.
C2_RetryBudget ==
    /\ nTry <= RetryLimit
    /\ pc = "attempt" => nTry < RetryLimit /\ nSleep = nTry
    /\ pc = "backoff" =>
         lastOutcome = "net" /\ nTry < RetryLimit /\ nSleep = nTry - 1
    /\ (pc \in {"fallback", "fetched"} /\ nTry >= 1) => nSleep = nTry - 1
    /\ (lastOutcome = "net" /\ nTry = RetryLimit) =>
         pc \in {"fallback", "fetched"} /\ IsEmpty(df)

\* A procedure has ended on its 3rd NetworkError, after 2 sleeps.
C2_ThirdNetworkError ==
    /\ pc = "fallback"
    /\ lastOutcome = "net"
    /\ nTry = RetryLimit
    /\ nSleep = 2

\* C3: when an exchange call fails with an error that is not a NetworkError,
\* that adapter is not attempted again in this call: no backoff and no retry
\* follow, and a call that ends on such a failure returns an empty series.
C3_NoRetryAfterAdapterError ==
    /\ lastOutcome = "other" => pc # "backoff"
    /\ ~(/\ wEnd = "other"
         /\ exchange_id = watch
         /\ pc \in {"attempt", "backoff"})
    /\ (pc = "fetched" /\ lastOutcome = "other") => IsEmpty(df)

\* C4: if the primary's procedure yields a non-empty series (on any of its
\* attempts), fetch_ohlcv returns that series, and no fallback is initialised
\* or attempted in that call.
C4_PrimarySuccessReturns ==
    (watch = primary0 /\ wProcs = 1 /\ wEnd = "data") =>
        /\ pc = "fetched"
        /\ df = wDf
        /\ ~IsEmpty(df)
        /\ nInit = 0
        /\ fbIdx = 0
        /\ exchange_id = primary0

\* The primary gave data on its 3rd attempt and fetch_ohlcv returned it.
C4_PrimaryThirdAttempt ==
    /\ pc = "fetched"
    /\ watch = primary0
    /\ wEnd = "data"
    /\ wAttempts = RetryLimit
    /\ nInit = 0

\* The fallback list without the identifier p.
Fallbacks(p) == SelectSeq(FALLBACK_EXCHANGES, LAMBDA f : f # p)

\* C5: fallbacks are attempted in list order and the first non-empty result
\* is returned: when the primary and the first fallback always raise
\* NetworkError and the second fallback returns data, the result is the
\* second fallback's data after exactly 3 failed attempts on the primary and
\* exactly 3 on the first fallback.
C5_SecondFallbackAfterSix ==
    (/\ pc = "fetched"
     /\ lastOutcome = "data"
     /\ allNet
     /\ exchange_id = Fallbacks(primary0)[2]) =>
        /\ df.src = Fallbacks(primary0)[2]
        /\ watch = primary0 => wAttempts = RetryLimit
        /\ watch = Fallbacks(primary0)[1] => wAttempts = RetryLimit

\* C6: in the fallback loop every identifier equal to the primary of this
\* call is skipped: the primary is never attempted a second time in the call.
C6_PrimaryNotRetried ==
    /\ (pc = "attempt" /\ fbIdx > 0) => exchange_id # primary0
    /\ watch = primary0 => wProcs <= 1

\* C7: the fetcher carries no state from one fetch to the next: every
\* fetch_ohlcv call first attempts the exchange the fetcher was configured
\* with.
C7_ConfiguredPrimaryFirst ==
    (pc \in {"attempt", "backoff"} /\ fbIdx = 0) => exchange_id = configured

\* C8: in one fetch_ohlcv call no identifier is attempted more than 3 times,
\* and the exchange calls number at most 3 times the distinct identifiers
\* among the primary and the fallback list.
C8_AttemptBound ==
    /\ watch \in ExchangeIds => wAttempts <= RetryLimit
    /\ watch = AllIds =>
         wAttempts <= RetryLimit * Cardinality(ExchangeIds \cup {primary0})

(***************************************************************************)
(* Properties of the pass                                                  *)
(***************************************************************************)

\* The timeframes whose fetch, in this pass, returned a non-empty series.
NonEmptyTimeframes ==
    {TRADING_INTERVALS[i] : i \in {j \in DOMAIN returned : ~IsEmpty(returned[j])}}

\* C9: the mapping of fetch_multi_timeframe_data has a key for a timeframe
\* exactly when the fetch for it returned a non-empty series, which is then
\* its value; no key maps to an empty series; and every timeframe of the list
\* is fetched, whatever the earlier ones returned.
C9_MappingKeys ==
    /\ DOMAIN timeframe_data = NonEmptyTimeframes
    /\ \A i \in DOMAIN returned :
         ~IsEmpty(returned[i]) =>
             timeframe_data[TRADING_INTERVALS[i]] = returned[i]
    /\ \A tf \in DOMAIN timeframe_data : ~IsEmpty(timeframe_data[tf])
    /\ pc \notin {"idle", "raised"} => Len(returned) = tfIdx - 1
    /\ (pc = "gpt" \/ output.kind # "none") =>
         Len(returned) = Len(TRADING_INTERVALS)

\* The first timeframe failed and the second was fetched and stored.
C9_SecondAfterFailedFirst ==
    /\ Len(returned) = 2
    /\ IsEmpty(returned[1])
    /\ DOMAIN timeframe_data = {TRADING_INTERVALS[2]}

\* C10: run_analysis returns the error value only when no timeframe has
\* data; when some timeframe was fetched non-empty its output is no error
\* and holds a technical-analysis record and a result entry for exactly the
\* timeframes fetched non-empty.
C10_PartialResults ==
    /\ output.kind = "error" => NonEmptyTimeframes = {}
    /\ output.kind = "results" =>
         /\ NonEmptyTimeframes # {}
         /\ DOMAIN output.tech_data = NonEmptyTimeframes
         /\ DOMAIN output.results = NonEmptyTimeframes
    /\ (pc = "idle" /\ returned # <<>>) => output.kind \in {"error", "results"}

\* A pass returned results although its first timeframe failed and its
\* second has a single candle, whose summary is an error mapping.
C10_OneOfTwo ==
    /\ output.kind = "results"
    /\ Len(returned) >= 2
    /\ IsEmpty(returned[1])
    /\ returned[2].n = 1
    /\ output.tech_data[TRADING_INTERVALS[2]].summary = "error"


(***************************************************************************)
(* TechnicalAnalyzer (src/src/analyzer.py)                                 *)
(*                                                                         *)
(* One step is one call of a method of the analyzer.  A series is the      *)
(* sequence of its closes, the only column the indicators and the signals  *)
(* read.  pandas computes in binary floating point; here every value is    *)
(* an exact fraction, or NaN, or an infinity, and a Bollinger band keeps   *)
(* its square root unevaluated, so that every comparison the code makes    *)
(* is decided exactly.                                                     *)
(***************************************************************************)

\* config.TECHNICAL_INDICATORS
SmaPeriods == <<20, 50, 200>>
EmaPeriods == <<9, 21, 55, 200>>
RsiPeriod == 14
MacdFast == 12
MacdSlow == 26
MacdSignalPeriod == 9
BBPeriod == 20
BBStd == 2

\* The thresholds of the rsi rule: if rsi < 30 ... elif rsi > 70
RsiOversold == 30
RsiOverbought == 70

\* The windows of the trend's averages in get_market_summary.
TrendShort == 20
TrendLong == 50

\* The largest close of a candle; closes are positive.
MaxClose == 2

\* The lengths of the series given to the analyzer: one and two candles,
\* and the first lengths at which the windows of rsi (14), of sma_20 and the
\* Bollinger bands (20) and of the trend (50) are full, with the length just
\* below the last.
SeriesLengths == {1, 2, 14, 20, 49, 50}

\* The closes of a series differ from its first close at its last two
\* candles at most: the exponential averages of such a series are
\* fractions whose terms TLC's integers hold.
TailLengths == {0, 1, 2}

(***************************************************************************)
(* Numbers                                                                 *)
(***************************************************************************)

Abs(x) == IF x < 0 THEN -x ELSE x

RECURSIVE GCD(_, _)
GCD(a, b) == IF b = 0 THEN a ELSE GCD(b, a % b)

LCM(a, b) == (a \div GCD(a, b)) * b

\* float("nan"), float("inf") and -float("inf"): the values of denominator 0.
NaN == [n |-> 0, d |-> 0]
PosInf == [n |-> 1, d |-> 0]
NegInf == [n |-> -1, d |-> 0]

\* The number n/d, d > 0, in lowest terms.
Rat(n, d) == LET g == GCD(Abs(n), d) IN [n |-> n \div g, d |-> d \div g]

\* An integer as a number.
Num(k) == [n |-> k, d |-> 1]

\* np.isnan(v), np.isinf(v)
IsNaN(v) == v.d = 0 /\ v.n = 0
IsInf(v) == v.d = 0 /\ v.n # 0
IsNumeric(v) == v.d # 0

\* a + b
Add(a, b) ==
    IF IsNaN(a) \/ IsNaN(b) THEN NaN
    ELSE IF IsInf(a) THEN (IF IsInf(b) /\ b.n # a.n THEN NaN ELSE a)
    ELSE IF IsInf(b) THEN b
    ELSE LET l == LCM(a.d, b.d)
         IN  Rat(a.n * (l \div a.d) + b.n * (l \div b.d), l)

\* -a
Neg(a) == [n |-> -a.n, d |-> a.d]

\* a - b
Sub(a, b) == Add(a, Neg(b))

\* k * a for an integer k
Scale(k, a) ==
    IF IsNaN(a) THEN NaN
    ELSE IF IsInf(a) THEN (IF k = 0 THEN NaN
                           ELSE IF k > 0 THEN a ELSE Neg(a))
    ELSE Rat(k * a.n, a.d)

\* a / b as numpy divides floats: a finite number over zero is an infinity,
\* zero over zero is NaN, nothing raises.
Div(a, b) ==
    IF IsNaN(a) \/ IsNaN(b) THEN NaN
    ELSE IF IsInf(a) THEN (IF IsInf(b) THEN NaN
                           ELSE IF b.n < 0 THEN Neg(a) ELSE a)
    ELSE IF IsInf(b) THEN Num(0)
    ELSE IF b.n = 0 THEN (IF a.n = 0 THEN NaN
                          ELSE IF a.n > 0 THEN PosInf ELSE NegInf)
    ELSE IF b.n > 0 THEN Rat(a.n * b.d, a.d * b.n)
    ELSE Rat(-(a.n * b.d), a.d * (-b.n))

\* a < b, a > b, a <= b, a >= b: False when an operand is NaN.
Lt(a, b) ==
    /\ ~IsNaN(a)
    /\ ~IsNaN(b)
    /\ IF IsInf(a) \/ IsInf(b)
         THEN (IsInf(a) /\ a.n < 0 /\ b # a) \/ (IsInf(b) /\ b.n > 0 /\ a # b)
         ELSE LET l == LCM(a.d, b.d)
              IN  a.n * (l \div a.d) < b.n * (l \div b.d)
Gt(a, b) == Lt(b, a)
Le(a, b) == ~IsNaN(a) /\ ~IsNaN(b) /\ ~Lt(b, a)
Ge(a, b) == Le(b, a)

\* A Bollinger band m + k * sqrt(v), for the mean m and the variance v of a
\* window; NaN when the window is not full.
Band(m, k, v) ==
    IF IsNaN(m) \/ IsNaN(v)
      THEN [n |-> 0, d |-> 0, k |-> k, vn |-> 0, vd |-> 1]
      ELSE [n |-> m.n, d |-> m.d, k |-> k, vn |-> v.n, vd |-> v.d]

\* x * x
Square(x) == IF IsNaN(x) THEN NaN ELSE Rat(x.n * x.n, x.d * x.d)

\* c < b for a close c and a band b with b.k < 0: c < m - |k| sqrt(v) is
\* m - c > 0 and (m - c)^2 > k^2 v.
BelowBand(c, b) ==
    /\ ~IsNaN(b)
    /\ LET gap == Sub([n |-> b.n, d |-> b.d], c)
       IN  /\ Gt(gap, Num(0))
           /\ Gt(Square(gap), Scale(b.k * b.k, [n |-> b.vn, d |-> b.vd]))

\* c > b for a close c and a band b with b.k > 0.
AboveBand(c, b) ==
    /\ ~IsNaN(b)
    /\ LET gap == Sub(c, [n |-> b.n, d |-> b.d])
       IN  /\ Gt(gap, Num(0))
           /\ Gt(Square(gap), Scale(b.k * b.k, [n |-> b.vn, d |-> b.vd]))

(***************************************************************************)
(* Series                                                                  *)
(***************************************************************************)

\* A DataFrame of the closes x.
Frame(x) == [none |-> FALSE, close |-> x]

\* self.data is None or self.data.empty
DataEmpty(d) == d.none \/ Len(d.close) = 0

\* m candles closing at c, then candles closing at the closes of tail.
Series(c, m, tail) == [i \in 1..m |-> c] \o tail

\* The closes of the last candles of a series.
Tails == UNION {[1..k -> 1..MaxClose] : k \in TailLengths}

\* The series a caller sets: the empty one and the ones of SeriesLengths.
SeriesOfLength(len) ==
    {Series(c, len - Len(t), t) :
        c \in 1..MaxClose, t \in {u \in Tails : Len(u) <= len}}

InputSeries == {<<>>} \cup UNION {SeriesOfLength(len) : len \in SeriesLengths}

\* A series given position by position, as the sequence of its values.
AsSeries(f) == f \o <<>>

\* self.data['close'], as numbers
CloseSeries(x) == AsSeries([i \in 1..Len(x) |-> Num(x[i])])

(***************************************************************************)
(* pandas                                                                  *)
(***************************************************************************)

RECURSIVE SumRange(_, _, _)
\* x[lo] + ... + x[hi] for integers, summed by halves
SumRange(x, lo, hi) ==
    IF lo > hi THEN 0
    ELSE IF lo = hi THEN x[lo]
    ELSE LET mid == (lo + hi) \div 2
         IN  SumRange(x, lo, mid) + SumRange(x, mid + 1, hi)

RECURSIVE SumSquares(_, _, _)
\* x[lo]^2 + ... + x[hi]^2 for integers, summed by halves
SumSquares(x, lo, hi) ==
    IF lo > hi THEN 0
    ELSE IF lo = hi THEN x[lo] * x[lo]
    ELSE LET mid == (lo + hi) \div 2
         IN  SumSquares(x, lo, mid) + SumSquares(x, mid + 1, hi)

\* The rolling mean with min_periods=1: the mean of the candles there are.
RollingMeanNoWarmUp(x, p) ==
    AsSeries([i \in 1..Len(x) |->
                IF i < p THEN Rat(SumRange(x, 1, i), i)
                ELSE Rat(SumRange(x, i - p + 1, i), p)])

\* x.rolling(window=p).mean() for a series of integers: NaN until the
\* window is full.
RollingMean(x, p) ==
    AsSeries([i \in 1..Len(x) |->
                IF i < p THEN NaN ELSE Rat(SumRange(x, i - p + 1, i), p)])

\* The square of x.rolling(window=p).std(): the sample variance of the
\* window, NaN until the window is full.
RollingVar(x, p) ==
    AsSeries([i \in 1..Len(x) |->
                IF i < p THEN NaN
                ELSE LET sum == SumRange(x, i - p + 1, i)
                         sq == SumSquares(x, i - p + 1, i)
                     IN  Rat(p * sq - sum * sum, p * (p - 1))])

\* One step of ewm(span=p, adjust=False).mean():
\* y[t] = (1 - alpha) y[t-1] + alpha x[t] with alpha = 2 / (p + 1), that is
\* (2 x[t] + (p - 1) y[t-1]) / (p + 1), for two numbers that are not NaN.
EwmStep(prev, xt, p) ==
    LET l == LCM(xt.d, prev.d)
    IN  Rat(2 * xt.n * (l \div xt.d) + (p - 1) * prev.n * (l \div prev.d),
            l * (p + 1))

RECURSIVE EwmFrom(_, _, _, _, _)
\* The values y[lo..hi] of the recursion, given y[lo-1] = prev; the range
\* is walked by halves, left half first.
EwmFrom(prev, x, p, lo, hi) ==
    IF lo = hi THEN <<EwmStep(prev, x[lo], p)>>
    ELSE LET mid == (lo + hi) \div 2
             left == EwmFrom(prev, x, p, lo, mid)
         IN  left \o EwmFrom(left[Len(left)], x, p, mid + 1, hi)

\* x.ewm(span=p, adjust=False).mean() for a series of numbers: y[0] = x[0].
Ewm(x, p) ==
    IF Len(x) = 0 THEN <<>>
    ELSE IF Len(x) = 1 THEN <<x[1]>>
    ELSE <<x[1]>> \o EwmFrom(x[1], x, p, 2, Len(x))

\* delta = close.diff(); gain = delta.where(delta > 0, 0): the first delta
\* is NaN, NaN > 0 is False, and where() puts 0 there.
Gain(x) ==
    AsSeries([i \in 1..Len(x) |->
                IF i > 1 /\ x[i] - x[i - 1] > 0 THEN x[i] - x[i - 1] ELSE 0])

\* loss = -delta.where(delta < 0, 0)
Loss(x) ==
    AsSeries([i \in 1..Len(x) |->
                IF i > 1 /\ x[i] - x[i - 1] < 0
                  THEN -(x[i] - x[i - 1]) ELSE 0])

\* rs = avg_gain / avg_loss; 100 - (100 / (1 + rs))
RsiValue(avg_gain, avg_loss) ==
    Sub(Num(100), Div(Num(100), Add(Num(1), Div(avg_gain, avg_loss))))

\* The rsi member of the Indicator Set.
Rsi(x) ==
    LET avg_gain == RollingMean(Gain(x), RsiPeriod)
        avg_loss == RollingMean(Loss(x), RsiPeriod)
    IN  [i \in 1..Len(x) |-> RsiValue(avg_gain[i], avg_loss[i])]

\* f"sma_{period}" and f"ema_{period}" for the periods of the configuration
SmaNames == <<"sma_20", "sma_50", "sma_200">>
EmaNames == <<"ema_9", "ema_21", "ema_55", "ema_200">>

\* for period in TECHNICAL_INDICATORS["sma"]: ...
SmaMembers(x) ==
    [k \in {SmaNames[i] : i \in DOMAIN SmaNames} |->
        LET i == CHOOSE j \in DOMAIN SmaNames : SmaNames[j] = k
        IN  RollingMean(x, SmaPeriods[i])]

\* for period in TECHNICAL_INDICATORS["ema"]: ...
EmaMembers(x) ==
    [k \in {EmaNames[i] : i \in DOMAIN EmaNames} |->
        LET i == CHOOSE j \in DOMAIN EmaNames : EmaNames[j] = k
        IN  Ewm(CloseSeries(x), EmaPeriods[i])]

\* macd = exp1 - exp2; signal = macd.ewm(...).mean(); histogram
MacdMembers(x) ==
    LET exp1 == Ewm(CloseSeries(x), MacdFast)
        exp2 == Ewm(CloseSeries(x), MacdSlow)
        macd == AsSeries([i \in 1..Len(x) |-> Sub(exp1[i], exp2[i])])
        signal == Ewm(macd, MacdSignalPeriod)
    IN  ("macd" :> macd) @@ ("macd_signal" :> signal) @@
        ("macd_hist" :> [i \in 1..Len(x) |-> Sub(macd[i], signal[i])])

\* middle_band, upper_band = middle_band + std_dev * std, lower_band
BBMembers(x) ==
    LET middle_band == RollingMean(x, BBPeriod)
        variance == RollingVar(x, BBPeriod)
    IN  ("bb_middle" :> middle_band) @@
        ("bb_upper" :>
           [i \in 1..Len(x) |-> Band(middle_band[i], BBStd, variance[i])]) @@
        ("bb_lower" :>
           [i \in 1..Len(x) |-> Band(middle_band[i], -BBStd, variance[i])])

\* The Indicator Set of the closes x: what the try block of
\* calculate_all_indicators leaves in self.indicators.  No statement of the
\* block raises for a series of numbers, so its except has no case here.
IndicatorSet(x) ==
    SmaMembers(x) @@ EmaMembers(x) @@ ("rsi" :> Rsi(x)) @@
    MacdMembers(x) @@ BBMembers(x)

(***************************************************************************)
(* TechnicalAnalyzer.generate_signals                                      *)
(***************************************************************************)

SignalNames == {"ema_cross", "rsi", "macd", "bbands", "overall"}
SignalValues == {"BUY", "SELL", "NEUTRAL"}

\* What a rule yields when indexing its array raises IndexError.
IndexError == "IndexError"

\* return {"error": str(e)}
ErrorMapping == ("error" :> IndexError)

\* series.iloc[-2:].values: the last two values, or the only one.
Tail2(s) == SubSeq(s, IF Len(s) >= 2 THEN Len(s) - 1 ELSE 1, Len(s))

\* The rule of ema_cross with the second-to-last values read first.
CrossSignalEager(short, long) ==
    IF Len(short) < 2 \/ Len(long) < 2 THEN IndexError
    ELSE IF Gt(short[2], long[2]) /\ Le(short[1], long[1]) THEN "BUY"
    ELSE IF Lt(short[2], long[2]) /\ Ge(short[1], long[1]) THEN "SELL"
    ELSE "NEUTRAL"

\* The rule of ema_cross with strict comparisons at the second-to-last
\* position.
CrossSignalStrict(short, long) ==
    IF Gt(short[Len(short)], long[Len(long)])
      THEN IF Len(short) < 2 \/ Len(long) < 2 THEN IndexError
           ELSE IF Lt(short[1], long[1]) THEN "BUY" ELSE "NEUTRAL"
    ELSE IF Lt(short[Len(short)], long[Len(long)])
      THEN IF Len(short) < 2 \/ Len(long) < 2 THEN IndexError
           ELSE IF Gt(short[1], long[1]) THEN "SELL" ELSE "NEUTRAL"
    ELSE "NEUTRAL"

\* if a[-1] > b[-1] and a[-2] <= b[-2]: BUY
\* elif a[-1] < b[-1] and a[-2] >= b[-2]: SELL
\* else: NEUTRAL
\* for the arrays short and long of the last two values of two series.  `and`
\* reads [-2] only when its left operand holds, and [-2] of an array of one
\* value raises IndexError.
CrossSignal(short, long) ==
    IF Gt(short[Len(short)], long[Len(long)])
      THEN IF Len(short) < 2 \/ Len(long) < 2 THEN IndexError
           ELSE IF Le(short[1], long[1]) THEN "BUY" ELSE "NEUTRAL"
    ELSE IF Lt(short[Len(short)], long[Len(long)])
      THEN IF Len(short) < 2 \/ Len(long) < 2 THEN IndexError
           ELSE IF Ge(short[1], long[1]) THEN "SELL" ELSE "NEUTRAL"
    ELSE "NEUTRAL"

\* if rsi < 30: BUY elif rsi > 70: SELL else: NEUTRAL
RsiSignal(rsi) ==
    IF Lt(rsi, Num(RsiOversold)) THEN "BUY"
    ELSE IF Gt(rsi, Num(RsiOverbought)) THEN "SELL"
    ELSE "NEUTRAL"

\* if close < lower: BUY elif close > upper: SELL else: NEUTRAL
BandSignal(close, upper, lower) ==
    IF BelowBand(close, lower) THEN "BUY"
    ELSE IF AboveBand(close, upper) THEN "SELL"
    ELSE "NEUTRAL"

\* The signals of the four rules, each present when the members it reads
\* are keys of the Indicator Set.
IndicatorSignals(ind, x) ==
    (IF {"ema_9", "ema_55"} \subseteq DOMAIN ind
       THEN ("ema_cross" :> CrossSignal(Tail2(ind["ema_9"]),
                                        Tail2(ind["ema_55"])))
       ELSE EmptyMap) @@
    (IF "rsi" \in DOMAIN ind
       THEN ("rsi" :> RsiSignal(ind["rsi"][Len(ind["rsi"])]))
       ELSE EmptyMap) @@
    (IF {"macd", "macd_signal"} \subseteq DOMAIN ind
       THEN ("macd" :> CrossSignal(Tail2(ind["macd"]),
                                   Tail2(ind["macd_signal"])))
       ELSE EmptyMap) @@
    (IF {"bb_upper", "bb_middle", "bb_lower"} \subseteq DOMAIN ind
       THEN ("bbands" :> BandSignal(Num(x[Len(x)]),
                                    ind["bb_upper"][Len(x)],
                                    ind["bb_lower"][Len(x)]))
       ELSE EmptyMap)

\* sum(1 for s in signals.values() if s == v)
CountOf(sig, v) == Cardinality({k \in DOMAIN sig : sig[k] = v})

\* The vote with ties given to BUY.
OverallTiesBuy(sig) ==
    IF CountOf(sig, "BUY") >= CountOf(sig, "SELL") THEN "BUY" ELSE "SELL"

\* if buy_count > sell_count: BUY elif sell_count > buy_count: SELL
\* else: NEUTRAL
Overall(sig) ==
    IF CountOf(sig, "BUY") > CountOf(sig, "SELL") THEN "BUY"
    ELSE IF CountOf(sig, "SELL") > CountOf(sig, "BUY") THEN "SELL"
    ELSE "NEUTRAL"

\* The try block of generate_signals: the Signal Set, or the error mapping
\* of its except when a rule raised.
SignalSet(ind, x) ==
    LET sig == IndicatorSignals(ind, x)
    IN  IF \E k \in DOMAIN sig : sig[k] = IndexError
          THEN ErrorMapping
          ELSE sig @@ ("overall" :> Overall(sig))

\* The first test of generate_signals never holding.
NeedsCalculationNever(ind) == FALSE

\* if not self.indicators: self.calculate_all_indicators()
NeedsCalculation(ind) == DOMAIN ind = {}

\* The second test of generate_signals never holding.
NoIndicatorsNever(ind) == FALSE

\* if not self.indicators: return {}
NoIndicators(ind) == DOMAIN ind = {}

\* self.indicators after calculate_all_indicators
CalculatedIndicators(d, ind) ==
    IF DataEmpty(d) THEN ind ELSE IndicatorSet(d.close)

\* What calculate_all_indicators returns, given self.indicators as it
\* leaves it: {} for no data, else self.indicators.
CalculateReturn(d, ind) == IF DataEmpty(d) THEN EmptyMap ELSE ind

\* self.indicators after generate_signals
GeneratedIndicators(d, ind) ==
    IF NeedsCalculation(ind) THEN CalculatedIndicators(d, ind) ELSE ind

\* What generate_signals returns, given self.indicators after its first
\* test.
GenerateReturn(d, ind) ==
    IF NoIndicators(ind) THEN EmptyMap ELSE SignalSet(ind, d.close)

(***************************************************************************)
(* TechnicalAnalyzer.get_market_summary                                    *)
(***************************************************************************)

\* The trend labels, in the order of the source's branches.
StrongUptrend == "strong uptrend"
PossibleRebound == "possible rebound"
PossiblePullback == "possible pullback"
Downtrend == "downtrend"
InsufficientData == "insufficient data"

\* ... if len(self.data) >= 20 else None
None == [none |-> TRUE]

\* bool(v): None and zero are false, every other number and NaN are true.
Truthy(v) ==
    IF "none" \in DOMAIN v THEN FALSE ELSE ~(IsNumeric(v) /\ v.n = 0)

\* The position of iloc[-2] with a series of one candle read at its only
\* candle.
PrevIndexClamped(x) == IF Len(x) >= 2 THEN Len(x) - 1 ELSE 1

\* The position of iloc[-2]; below 1 the read raises IndexError.
PrevIndex(x) == Len(x) - 1

\* rolling(window=p).mean().iloc[-1] if len(self.data) >= p else None
LastMean(x, p) == IF Len(x) >= p THEN RollingMean(x, p)[Len(x)] ELSE None

\* The trend with the averages compared to each other only.
TrendLabelNoPrice(price, sma20, sma50) ==
    IF Truthy(sma20) /\ Truthy(sma50)
      THEN IF Gt(sma20, sma50) THEN StrongUptrend
           ELSE IF Lt(sma20, sma50) THEN PossibleRebound
           ELSE Downtrend
      ELSE InsufficientData

\* if sma20 and sma50: ... else: ...
TrendLabel(price, sma20, sma50) ==
    IF Truthy(sma20) /\ Truthy(sma50)
      THEN IF Gt(price, sma20) /\ Gt(sma20, sma50) THEN StrongUptrend
           ELSE IF Gt(price, sma20) /\ Lt(sma20, sma50) THEN PossibleRebound
           ELSE IF Lt(price, sma20) /\ Gt(sma20, sma50) THEN PossiblePullback
           ELSE Downtrend
      ELSE InsufficientData

\* What get_market_summary returns.  The 24h figures read the high, low and
\* volume columns, which decide no branch and raise nothing; they are not
\* part of the record.
MarketSummary(d) ==
    IF DataEmpty(d) THEN EmptyMap
    ELSE IF PrevIndex(d.close) < 1 THEN [error |-> IndexError]
    ELSE LET x == d.close
             current_price == Num(x[Len(x)])
             prev_price == Num(x[PrevIndex(x)])
             price_change == Sub(current_price, prev_price)
         IN  [current_price |-> current_price,
              price_change |-> price_change,
              price_change_pct |-> Scale(100, Div(price_change, prev_price)),
              trend |-> TrendLabel(current_price, LastMean(x, TrendShort),
                                   LastMean(x, TrendLong))]

(***************************************************************************)
(* TechnicalAnalyzer.analyze_timeframe: the last values, rounded           *)
(***************************************************************************)

\* round(value, 2) keeps the hundredths: 10 ** 2
RoundScale == 100

\* n / d rounded to the nearest integer, a tie to the even one; d > 0.
RoundHalfEven(n, d) ==
    LET q == n \div d
        r == n % d
    IN  IF 2 * r < d THEN q
        ELSE IF 2 * r > d THEN q + 1
        ELSE IF q % 2 = 0 THEN q ELSE q + 1

\* round(v, 2) of a number: NaN and the infinities stay as they are.
Round2(v) ==
    IF ~IsNumeric(v) THEN v
    ELSE Rat(RoundHalfEven(RoundScale * v.n, v.d), RoundScale)

\* g <= k * sqrt(V) for a number g, an integer k and a number V >= 0.
LeSurd(g, k, V) ==
    IF k >= 0
      THEN Le(g, Num(0)) \/ Le(Square(g), Scale(k * k, V))
      ELSE Le(g, Num(0)) /\ Ge(Square(g), Scale(k * k, V))

\* The largest integer j in lo..hi-1 with j <= A + k * sqrt(V), given that lo
\* is one and hi is none.
RECURSIVE LargestBelow(_, _, _, _, _)
LargestBelow(A, k, V, lo, hi) ==
    IF hi - lo <= 1 THEN lo
    ELSE LET mid == (lo + hi) \div 2
         IN  IF LeSurd(Sub(Num(mid), A), k, V)
               THEN LargestBelow(A, k, V, mid, hi)
               ELSE LargestBelow(A, k, V, lo, mid)

\* round(b, 2) of a band b = m + k * sqrt(v): the integer nearest to
\* 100 m + k * sqrt(10000 v) over 100, a tie going to the even integer.
RoundBand(b) ==
    IF IsNaN(b) THEN NaN
    ELSE LET A == Add(Scale(RoundScale, [n |-> b.n, d |-> b.d]), Rat(1, 2))
             V == Scale(RoundScale * RoundScale, [n |-> b.vn, d |-> b.vd])
             reach == Abs(b.k) * ((V.n \div V.d) + 1) + 1
             j == LargestBelow(A, b.k, V, (A.n \div A.d) - reach,
                               (A.n \div A.d) + reach)
             tie == /\ LeSurd(Sub(A, Num(j)), -b.k, V)
                    /\ j % 2 = 1
         IN  Rat(IF tie THEN j - 1 ELSE j, RoundScale)

\* round(series.iloc[-1], 2)
RoundLast(series) ==
    LET last == series[Len(series)]
    IN  IF "k" \in DOMAIN last THEN RoundBand(last) ELSE Round2(last)

\* last_indicators: for name, series in self.indicators.items():
\*     if not series.empty: last_indicators[name] = round(series.iloc[-1], 2)
LastIndicators(ind) ==
    [name \in {k \in DOMAIN ind : Len(ind[k]) > 0} |-> RoundLast(ind[name])]

(***************************************************************************)
(* The methods of the analyzer                                             *)
(***************************************************************************)

\* The record of a method's return.
Returned(op, value, calc) == [op |-> op, value |-> value, calc |-> calc]

\* firstSignals once generate_signals has returned value: the first return
\* is kept, and a later one is noted.
Remember(first, value) ==
    IF first.has THEN [first EXCEPT !.again = TRUE]
    ELSE [has |-> TRUE, value |-> value, again |-> FALSE]

\* SetDataTo with self.signals left as it was.
SetDataKeepsSignals(x) ==
    /\ data' = Frame(x)
    /\ indicators' = EmptyMap
    /\ signals' = signals
    /\ ret' = Returned("set_data", EmptyMap, FALSE)
    /\ firstSignals' = NoSignals

\* set_data(ohlcv_data) for a frame of the closes x
SetDataTo(x) ==
    /\ data' = Frame(x)
    /\ indicators' = EmptyMap
    /\ signals' = EmptyMap
    /\ ret' = Returned("set_data", EmptyMap, FALSE)
    /\ firstSignals' = NoSignals

\* set_data(ohlcv_data), called with any series
SetData ==
    \E x \in InputSeries :
        /\ SetDataTo(x)
        /\ UNCHANGED botVars

\* calculate_all_indicators()
CalculateAllIndicators ==
    /\ indicators' = CalculatedIndicators(data, indicators)
    /\ ret' = Returned("calculate_all_indicators",
                       CalculateReturn(data, indicators'), TRUE)
    /\ UNCHANGED <<data, signals, firstSignals, botVars>>

\* generate_signals(): self.signals is assigned when the try block ends
\* without an exception.
GenerateSignals ==
    /\ indicators' = GeneratedIndicators(data, indicators)
    /\ ret' = Returned("generate_signals",
                       GenerateReturn(data, indicators'),
                       NeedsCalculation(indicators))
    /\ signals' = IF "overall" \in DOMAIN ret'.value
                    THEN ret'.value ELSE signals
    /\ firstSignals' = Remember(firstSignals, ret'.value)
    /\ UNCHANGED <<data, botVars>>

\* get_market_summary()
GetMarketSummary ==
    /\ ret' = Returned("get_market_summary", MarketSummary(data), FALSE)
    /\ UNCHANGED <<data, indicators, signals, firstSignals, botVars>>

\* The record analyze_timeframe(tf) returns for the frame d, given
\* self.indicators after its call of calculate_all_indicators.
AnalyzeRecord(tf, d, ind) ==
    [timeframe |-> tf,
     signals |-> GenerateReturn(d, ind),
     indicators |-> LastIndicators(ind),
     summary |-> MarketSummary(d)]

\* analyze_timeframe(timeframe) for a timeframe of tfs:
\* calculate_all_indicators, generate_signals and get_market_summary in
\* turn, then the rounded last values of self.indicators.
AnalyzeTimeframeIn(tfs) ==
    /\ indicators' = CalculatedIndicators(data, indicators)
    /\ \E tf \in tfs :
         ret' = Returned("analyze_timeframe",
                         AnalyzeRecord(tf, data, indicators'), TRUE)
    /\ signals' = IF "overall" \in DOMAIN ret'.value.signals
                    THEN ret'.value.signals ELSE signals
    /\ firstSignals' = Remember(firstSignals, ret'.value.signals)

\* analyze_timeframe(timeframe), called with any timeframe
AnalyzeTimeframe ==
    /\ AnalyzeTimeframeIn({TRADING_INTERVALS[i] : i \in DOMAIN TRADING_INTERVALS})
    /\ UNCHANGED <<data, botVars>>

AnalyzerNext ==
    \/ SetData
    \/ CalculateAllIndicators
    \/ GenerateSignals
    \/ GetMarketSummary
    \/ AnalyzeTimeframe

\* The analyzer driven by a caller, from the state the constructors leave.
SpecAnalyzer == Init /\ [][AnalyzerNext]_vars


(***************************************************************************)
(* Properties of the analyzer                                              *)
(***************************************************************************)

\* The last call returned a Signal Set: it was generate_signals, or
\* analyze_timeframe, which returns the one generate_signals gave it.
SignalsReturned == ret.op \in {"generate_signals", "analyze_timeframe"}

\* The Signal Set the last call returned.
LastSignals ==
    IF ret.op = "generate_signals" THEN ret.value ELSE ret.value.signals

\* a < b and a <= b for two fractions, by cross-multiplication.
Below(a, b) == a.n * b.d < b.n * a.d
NotAbove(a, b) == a.n * b.d <= b.n * a.d

\* C11: for every series, of one candle too, every key of the mapping
\* generate_signals returns is one of ema_cross, rsi, macd, bbands, overall
\* and every value is one of BUY, SELL, NEUTRAL.
C11_SignalSetWellFormed ==
    SignalsReturned =>
        \A k \in DOMAIN LastSignals :
            k \in SignalNames /\ LastSignals[k] \in SignalValues

\* generate_signals returned all five signals for a series of one candle.
C11_OneCandleSignals ==
    /\ ret.op = "generate_signals"
    /\ Len(data.close) = 1
    /\ DOMAIN ret.value = SignalNames

\* C12: for a non-empty series with too few candles for an indicator's
\* window, whose last value of the indicator is undefined, generate_signals
\* leaves that indicator's signal out of the Signal Set (it is not set to
\* NEUTRAL), returns no error mapping, and votes overall over the signals
\* it did produce.
C12_UndefinedOmitted ==
    (ret.op = "generate_signals" /\ ~DataEmpty(data)) =>
        LET last == Len(data.close)
        IN  /\ "error" \notin DOMAIN ret.value
            /\ "overall" \in DOMAIN ret.value
            /\ IsNaN(indicators["rsi"][last]) => "rsi" \notin DOMAIN ret.value
            /\ (IsNaN(indicators["bb_upper"][last])
                  \/ IsNaN(indicators["bb_lower"][last]))
                 => "bbands" \notin DOMAIN ret.value

\* How many of the four rules gave the value v in the Signal Set sig.
Votes(sig, v) ==
    LET one(k) == IF k \in DOMAIN sig /\ sig[k] = v THEN 1 ELSE 0
    IN  one("ema_cross") + one("rsi") + one("macd") + one("bbands")

\* C13: overall is BUY exactly when more of the other signals are BUY than
\* SELL, SELL exactly when more are SELL than BUY, and NEUTRAL on every
\* tie, 0-0 too; NEUTRAL signals and overall itself are not counted.
C13_OverallIsMajority ==
    (SignalsReturned /\ "overall" \in DOMAIN LastSignals) =>
        LET buys == Votes(LastSignals, "BUY")
            sells == Votes(LastSignals, "SELL")
        IN  /\ LastSignals["overall"] = "BUY" <=> buys > sells
            /\ LastSignals["overall"] = "SELL" <=> sells > buys
            /\ LastSignals["overall"] = "NEUTRAL" <=> buys = sells

\* Two BUY signals and one SELL gave overall BUY.
C13_TwoToOne ==
    /\ ret.op = "generate_signals"
    /\ "overall" \in DOMAIN ret.value
    /\ Votes(ret.value, "BUY") = 2
    /\ Votes(ret.value, "SELL") = 1
    /\ ret.value["overall"] = "BUY"

\* C14: with s and l the 9- and 55-period exponential averages and t the
\* last position, ema_cross is BUY exactly when s[t-1] <= l[t-1] and
\* s[t] > l[t], SELL exactly when s[t-1] >= l[t-1] and s[t] < l[t], and
\* NEUTRAL otherwise; the two crossings never hold together.
C14_EmaCrossRule ==
    (SignalsReturned /\ "ema_cross" \in DOMAIN LastSignals
       /\ Len(data.close) >= 2) =>
        LET s == indicators["ema_9"]
            l == indicators["ema_55"]
            t == Len(data.close)
            up == NotAbove(s[t - 1], l[t - 1]) /\ Below(l[t], s[t])
            down == NotAbove(l[t - 1], s[t - 1]) /\ Below(s[t], l[t])
        IN  /\ LastSignals["ema_cross"] = "BUY" <=> up
            /\ LastSignals["ema_cross"] = "SELL" <=> down
            /\ LastSignals["ema_cross"] = "NEUTRAL" <=> ~up /\ ~down
            /\ ~(up /\ down)

\* ema_cross is BUY where the two averages were equal at the second-to-last
\* position.
C14_CrossFromEqual ==
    /\ ret.op = "generate_signals"
    /\ Len(data.close) >= 2
    /\ "ema_cross" \in DOMAIN ret.value
    /\ ret.value["ema_cross"] = "BUY"
    /\ indicators["ema_9"][Len(data.close) - 1]
         = indicators["ema_55"][Len(data.close) - 1]

\* C15: for an empty or unset series calculate_all_indicators returns an
\* empty Indicator Set, and generate_signals runs calculate_all_indicators
\* first and then returns an empty Signal Set: no overall, no error.
C15_EmptySeries ==
    /\ (ret.op = "calculate_all_indicators" /\ DataEmpty(data))
         => DOMAIN ret.value = {} /\ DOMAIN indicators = {}
    /\ (ret.op = "generate_signals" /\ DataEmpty(data))
         => ret.calc /\ DOMAIN ret.value = {} /\ DOMAIN indicators = {}

\* generate_signals returned for the empty DataFrame.
C15_EmptyFrameSignals ==
    /\ ret.op = "generate_signals"
    /\ ~data.none
    /\ Len(data.close) = 0

\* The same keys with the same values.
SameMap(a, b) ==
    /\ DOMAIN a = DOMAIN b
    /\ \A k \in DOMAIN a : a[k] = b[k]

\* C16: for one series, every call of generate_signals returns the Signal
\* Set its first call returned, whatever calls of calculate_all_indicators,
\* get_market_summary or generate_signals came in between.
C16_RepeatableSignals ==
    SignalsReturned =>
        firstSignals.has /\ SameMap(LastSignals, firstSignals.value)

\* A later call of generate_signals returned, with a signal that is not
\* NEUTRAL.
C16_CalledAgain ==
    /\ ret.op = "generate_signals"
    /\ firstSignals.again
    /\ "overall" \in DOMAIN ret.value
    /\ ret.value["overall"] # "NEUTRAL"

\* The last call returned a market summary.
SummaryReturned == ret.op \in {"get_market_summary", "analyze_timeframe"}

\* The market summary the last call returned.
LastSummary ==
    IF ret.op = "get_market_summary" THEN ret.value ELSE ret.value.summary

\* C17: get_market_summary returns the empty mapping for no candle and an
\* error mapping for one candle, neither with a price field; for two or
\* more candles its price_change is close[-1] - close[-2].
C17_SummaryOfShortSeries ==
    SummaryReturned =>
        LET x == data.close
        IN  /\ DataEmpty(data) => DOMAIN LastSummary = {}
            /\ Len(x) = 1 => DOMAIN LastSummary = {"error"}
            /\ Len(x) >= 2 =>
                 /\ "price_change" \in DOMAIN LastSummary
                 /\ "error" \notin DOMAIN LastSummary
                 /\ LastSummary.price_change = Num(x[Len(x)] - x[Len(x) - 1])

\* get_market_summary returned the error mapping for a series of one
\* candle.
C17_OneCandleSummary ==
    /\ ret.op = "get_market_summary"
    /\ Len(data.close) = 1
    /\ "error" \in DOMAIN ret.value

C19_ZeroLossIsHundred ==
    (~DataEmpty(data) /\ DOMAIN indicators # {}) =>
        LET x == data.close
        IN  \A i \in RsiPeriod..Len(x) :
                SumRange(Loss(x), i - RsiPeriod + 1, i) = 0 =>
                    /\ indicators["rsi"][i] = Num(100)
                    /\ (i = Len(x) /\ ret.op = "generate_signals")
                         => ret.value["rsi"] = "SELL"

\* The window of each member of the Indicator Set.
Period ==
    [k \in {SmaNames[i] : i \in DOMAIN SmaNames} |->
        SmaPeriods[CHOOSE j \in DOMAIN SmaNames : SmaNames[j] = k]] @@
    [k \in {EmaNames[i] : i \in DOMAIN EmaNames} |->
        EmaPeriods[CHOOSE j \in DOMAIN EmaNames : EmaNames[j] = k]] @@
    ("rsi" :> RsiPeriod) @@
    [k \in {"macd", "macd_signal", "macd_hist"} |-> MacdSlow] @@
    [k \in {"bb_upper", "bb_middle", "bb_lower"} |-> BBPeriod]

WindowMembers ==
    {SmaNames[i] : i \in DOMAIN SmaNames}
        \cup {"bb_upper", "bb_middle", "bb_lower"}

\* The members computed by exponential averaging.
SeededMembers ==
    {EmaNames[i] : i \in DOMAIN EmaNames}
        \cup {"macd", "macd_signal", "macd_hist"}

ReuseSeries ==
    {<<>>, <<1>>, <<2, 1>>, Series(1, 12, <<2, 1>>), Series(1, 18, <<1, 2>>),
     Series(2, 48, <<1, 2>>)}

Timeframes == {TRADING_INTERVALS[i] : i \in DOMAIN TRADING_INTERVALS}

\* The caller has a series for every timeframe.
ReuseBegin ==
    /\ pc = "idle"
    /\ tfIdx = 0
    /\ \E td \in [Timeframes -> ReuseSeries] :
         timeframe_data' = [tf \in Timeframes |-> Frame(td[tf])]
    /\ tech_analysis' = EmptyMap
    /\ tfIdx' = 1
    /\ pc' = "set_data"
    /\ UNCHANGED <<analyzerVars, notifierVars>>
    /\ UNCHANGED <<fetcherVars, histVars, attempt, fbIdx, df, output, returned>>

\* self.tech_analyzer.set_data(ohlcv_data)
ReuseSetData ==
    /\ pc = "set_data"
    /\ tfIdx <= Len(TRADING_INTERVALS)
    /\ SetDataTo(timeframe_data[TRADING_INTERVALS[tfIdx]].close)
    /\ pc' = "analyze_timeframe"
    /\ UNCHANGED <<fetcherVars, histVars, passVars, attempt, fbIdx, df,
                   returned, notifierVars>>

\* tech_analysis[timeframe] = self.tech_analyzer.analyze_timeframe(timeframe)
ReuseAnalyzeTimeframe ==
    /\ pc = "analyze_timeframe"
    /\ AnalyzeTimeframeIn({TRADING_INTERVALS[tfIdx]})
    /\ tech_analysis' = (TRADING_INTERVALS[tfIdx] :> ret'.value) @@ tech_analysis
    /\ tfIdx' = tfIdx + 1
    /\ pc' = "set_data"
    /\ UNCHANGED <<fetcherVars, histVars, attempt, fbIdx, df, timeframe_data,
                   output, returned, data, notifierVars>>

ReuseNext ==
    \/ ReuseBegin
    \/ ReuseSetData
    \/ ReuseAnalyzeTimeframe

\* One analyzer reused over the timeframes, from the state the constructors
\* leave.
SpecReuse == Init /\ [][ReuseNext]_vars

\* The Signal Set of the closes x alone, {} for no closes.
SignalsOf(x) ==
    IF Len(x) = 0 THEN EmptyMap ELSE SignalSet(IndicatorSet(x), x)

\* The rounded last indicator values of the closes x alone, {} for no
\* closes.
LastIndicatorsOf(x) ==
    IF Len(x) = 0 THEN EmptyMap ELSE LastIndicators(IndicatorSet(x))

\* C22: set_data replaces the series and empties both the indicators and the
\* signals, so when one analyzer is reused for several timeframes (set_data
\* then analyze_timeframe for each), the record returned for a timeframe
\* holds only indicator and signal values derived from that timeframe's
\* series, also when the new series is empty.
C22_RecordsOfOwnSeries ==
    /\ pc = "analyze_timeframe" =>
         /\ data = timeframe_data[TRADING_INTERVALS[tfIdx]]
         /\ indicators = EmptyMap
         /\ signals = EmptyMap
    /\ \A tf \in DOMAIN tech_analysis :
         /\ tech_analysis[tf].timeframe = tf
         /\ tech_analysis[tf].signals = SignalsOf(timeframe_data[tf].close)
         /\ tech_analysis[tf].indicators =
              LastIndicatorsOf(timeframe_data[tf].close)

\* The analyzer was given an empty series after one of 20 candles or more
\* and returned a record without signals or indicators for it, the first
\* timeframe's record keeping its own.
C22_EmptyAfterAnalysed ==
    /\ DOMAIN tech_analysis = {TRADING_INTERVALS[1], TRADING_INTERVALS[2]}
    /\ Len(timeframe_data[TRADING_INTERVALS[1]].close) >= BBPeriod
    /\ Len(timeframe_data[TRADING_INTERVALS[2]].close) = 0
    /\ "overall" \in DOMAIN tech_analysis[TRADING_INTERVALS[1]].signals
    /\ tech_analysis[TRADING_INTERVALS[2]].signals = EmptyMap
    /\ tech_analysis[TRADING_INTERVALS[2]].indicators = EmptyMap

(***************************************************************************)
(* The fetcher's handle and identifier                                     *)
(***************************************************************************)

\* C21: whenever no fetch_ohlcv call is in progress (after construction and
\* after every return, also when a fallback failed to initialise),
\* self.exchange is the client of the exchange that self.exchange_id names,
\* and a non-empty series a call returned was supplied by the exchange that
\* self.exchange_id names at the return.
C21_HandleMatchesId ==
    pc \in {"idle", "fetch_multi", "fetched", "gpt"} =>
        /\ exchange = exchange_id
        /\ (pc = "fetched" /\ ~IsEmpty(df)) => df.src = exchange_id


(***************************************************************************)
(* The pass when the GPT analysis fails                                    *)
(***************************************************************************)

\* C23: when the GPT analysis fails for one, some or all timeframes, the
\* pass continues with the technical analysis only: every timeframe with a
\* technical-analysis record gets a result entry that is no error record,
\* the fallback built from the overall signal where the GPT analysis failed,
\* so that send_market_analysis has an entry to send for it.
C23_TechnicalFallback ==
    output.kind = "results" =>
        \A tf \in DOMAIN output.tech_data :
            /\ tf \in DOMAIN output.results
            /\ output.results[tf].from \in {"gpt", "technical"}


(***************************************************************************)
(* DiscordNotifier.send_message (src/src/notifier.py)                      *)
(*                                                                         *)
(* One step is the entry of send_message, one webhook.execute() with what  *)
(* follows it up to the sleep or the return, or one sleep.  The content    *)
(* and the embeds of the message decide no branch and are not kept.        *)
(***************************************************************************)

MAX_RETRIES == 3
RETRY_DELAY == 5

\* response.status_code in [200, 204]
OkStatus == {"200", "204"}

\* What one webhook.execute() does: it returns a response with a status, or
\* no response, or it raises.
Answers == OkStatus \cup {"429", "500", "none", "raises"}

\* DiscordNotifier(webhook_url) by itself, with a URL or with none.
InitNotifier ==
    /\ AnalyzerInit
    /\ FetcherInit
    /\ \E url \in {WebhookUrl, NoWebhookUrl} : NotifierInit(url)

\* ShouldWait with the bound one too high: a sleep follows the last attempt.
ShouldWaitAlways(a) == a < MAX_RETRIES

\* if attempt < MAX_RETRIES - 1: ... time.sleep(RETRY_DELAY)
\* else: return False
ShouldWait(a) == a < MAX_RETRIES - 1

\* if not self.webhook_url: return False
SendMessageUnconfigured ==
    /\ npc = "idle"
    /\ webhook_url = NoWebhookUrl
    /\ sent' = "False"
    /\ sendAttempt' = 0
    /\ answers' = <<>>
    /\ waited' = 0
    /\ UNCHANGED <<webhook_url, npc>>
    /\ UNCHANGED <<fetcherVars, callVars, passVars, histVars, returned,
                   analyzerVars>>

\* send_message is called with a URL: the webhook is built and the loop
\* for attempt in range(MAX_RETRIES) begins.
SendMessage ==
    /\ npc = "idle"
    /\ webhook_url # NoWebhookUrl
    /\ npc' = "execute"
    /\ sendAttempt' = 0
    /\ answers' = <<>>
    /\ waited' = 0
    /\ sent' = "none"
    /\ UNCHANGED webhook_url
    /\ UNCHANGED <<fetcherVars, callVars, passVars, histVars, returned,
                   analyzerVars>>

\* response = webhook.execute() is answered with 200 or 204: return True
ExecuteOk ==
    /\ npc = "execute"
    /\ \E a \in OkStatus : answers' = Append(answers, a)
    /\ sent' = "True"
    /\ npc' = "idle"
    /\ UNCHANGED <<webhook_url, sendAttempt, waited>>
    /\ UNCHANGED <<fetcherVars, callVars, passVars, histVars, returned,
                   analyzerVars>>

\* The else branch: another status, or no response.
ExecuteFails ==
    /\ npc = "execute"
    /\ \E a \in Answers \ (OkStatus \cup {"raises"}) :
         answers' = Append(answers, a)
    /\ IF ShouldWait(sendAttempt)
         THEN npc' = "wait" /\ sent' = sent
         ELSE npc' = "idle" /\ sent' = "False"
    /\ UNCHANGED <<webhook_url, sendAttempt, waited>>
    /\ UNCHANGED <<fetcherVars, callVars, passVars, histVars, returned,
                   analyzerVars>>

\* except Exception: webhook.execute() raised.
ExecuteRaises ==
    /\ npc = "execute"
    /\ answers' = Append(answers, "raises")
    /\ IF ShouldWait(sendAttempt)
         THEN npc' = "wait" /\ sent' = sent
         ELSE npc' = "idle" /\ sent' = "False"
    /\ UNCHANGED <<webhook_url, sendAttempt, waited>>
    /\ UNCHANGED <<fetcherVars, callVars, passVars, histVars, returned,
                   analyzerVars>>

\* time.sleep(RETRY_DELAY), then the next iteration; a loop that ran out
\* after a sleep would reach the return False that follows it.
RetryDelay ==
    /\ npc = "wait"
    /\ waited' = waited + RETRY_DELAY
    /\ sendAttempt' = sendAttempt + 1
    /\ IF sendAttempt + 1 < MAX_RETRIES
         THEN npc' = "execute" /\ sent' = sent
         ELSE npc' = "idle" /\ sent' = "False"
    /\ UNCHANGED <<webhook_url, answers>>
    /\ UNCHANGED <<fetcherVars, callVars, passVars, histVars, returned,
                   analyzerVars>>

NotifierNext ==
    \/ SendMessageUnconfigured
    \/ SendMessage
    \/ ExecuteOk
    \/ ExecuteFails
    \/ ExecuteRaises
    \/ RetryDelay

\* The notifier driven by a caller, from the state its constructor leaves.
SpecNotifier == InitNotifier /\ [][NotifierNext]_vars

\* The i-th execution of this send_message was answered with 200 or 204.
AnsweredOk(i) == answers[i] \in {"200", "204"}

\* send_message has returned.
MessageReturned == npc = "idle" /\ sent # "none"

\* C24: with a webhook URL, send_message executes the webhook at most
\* MAX_RETRIES (3) times, stops at the first attempt answered with 200 or
\* 204, sleeps RETRY_DELAY only between two attempts, and returns True
\* exactly when some attempt was answered with 200 or 204; an attempt that
\* fails by its status and one that fails by an exception count the same, so
\* False is returned after MAX_RETRIES attempts of either kind.
C24_SendBudget ==
    webhook_url # NoWebhookUrl =>
        LET n == Len(answers)
        IN  /\ n <= 3
            /\ \A i \in 1..(n - 1) : ~AnsweredOk(i)
            /\ npc = "execute" => (n < 3 /\ waited = RETRY_DELAY * n)
            /\ npc = "wait" => (n < 3 /\ waited = RETRY_DELAY * (n - 1))
            /\ MessageReturned =>
                 /\ n >= 1
                 /\ waited = RETRY_DELAY * (n - 1)
                 /\ (sent = "True") <=> (\E i \in 1..n : AnsweredOk(i))
                 /\ (sent = "False") => (n = 3)

\* send_message returned True on its third attempt, after a failure by
\* status and a failure by exception and two sleeps.
C24_ThirdAttemptSucceeds ==
    /\ MessageReturned
    /\ sent = "True"
    /\ answers = <<"500", "raises", "204">>
    /\ waited = 2 * RETRY_DELAY

====
